---- MODULE Spec2Model ----
(***************************************************************************)
(* Model of the project scaffolding tool src/index.mjs.                    *)
(*                                                                         *)
(* Strings are sequences of one-character strings.  The file system is a   *)
(* function from directory names (under the current working directory)    *)
(* to what is stored there.  pc is the position of main() in its chain of  *)
(* awaited steps.                                                          *)
(***************************************************************************)
EXTENDS Integers, Sequences, FiniteSets, TLC

\* ------------------------------------------------------------------------
\* Bounds of the model
\* ------------------------------------------------------------------------

\* longest input string given to the string functions
MaxLen == 4

\* how many times the name question may reject an answer before the model
\* stops typing invalid names
MaxAttempts == 2

\* ------------------------------------------------------------------------
\* Characters
\* ------------------------------------------------------------------------

\* a-z (representatives)
Lower == {"a", "b"}

\* 0-9 (representative)
Digit == {"7"}

\* A-Z (representative)
Upper == {"B"}

\* \s (representative)
Space == {" "}

\* the characters the inputs are built from
Alphabet == {"a", "7", "B", " ", "-", ".", "_", "~", "@", "/", "*", "!"}

\* all strings over Alphabet of length 0..n
StringsUpTo(n) == UNION {[1..k -> Alphabet] : k \in 0..n}

Strings == StringsUpTo(MaxLen)

\* ------------------------------------------------------------------------
\* isValidPackageName: the regular expression
\*   ^(?:@[a-z0-9-*~][a-z0-9-*._~]*\/)?[a-z0-9-~][a-z0-9-._~]*$
\* run as an automaton over the characters of the name.
\* ------------------------------------------------------------------------

\* [a-z0-9-*~]
ScopeFirst == Lower \cup Digit \cup {"-", "*", "~"}

\* [a-z0-9-*._~]
ScopeRest == Lower \cup Digit \cup {"-", "*", ".", "_", "~"}

\* [a-z0-9-~]
NameFirst == Lower \cup Digit \cup {"-", "~"}

\* [a-z0-9-._~]
NameRest == Lower \cup Digit \cup {"-", ".", "_", "~"}

\* Positions of the pattern: "start" (before the optional group and before
\* the name), "at" (after @), "scope" (inside the scope), "name0" (after the
\* /, before the name), "name" (inside the name; the only accepting one).
RegexStep(q, c) ==
    CASE q = "start" -> (IF c = "@" THEN {"at"} ELSE {})
                        \cup (IF c \in NameFirst THEN {"name"} ELSE {})
      [] q = "at"    -> IF c \in ScopeFirst THEN {"scope"} ELSE {}
      [] q = "scope" -> (IF c \in ScopeRest THEN {"scope"} ELSE {})
                        \cup (IF c = "/" THEN {"name0"} ELSE {})
      [] q = "name0" -> IF c \in NameFirst THEN {"name"} ELSE {}
      [] q = "name"  -> IF c \in NameRest THEN {"name"} ELSE {}

RECURSIVE RegexRun(_, _, _)
RegexRun(qs, s, i) ==
    IF i > Len(s) THEN qs
    ELSE RegexRun(UNION {RegexStep(q, s[i]) : q \in qs}, s, i + 1)

\* a plausible slip: the name may start with any character of its class
RegexStepLeadingDot(q, c) ==
    CASE q = "start" -> (IF c = "@" THEN {"at"} ELSE {})
                        \cup (IF c \in NameRest THEN {"name"} ELSE {})
      [] q = "at"    -> IF c \in ScopeFirst THEN {"scope"} ELSE {}
      [] q = "scope" -> (IF c \in ScopeRest THEN {"scope"} ELSE {})
                        \cup (IF c = "/" THEN {"name0"} ELSE {})
      [] q = "name0" -> IF c \in NameRest THEN {"name"} ELSE {}
      [] q = "name"  -> IF c \in NameRest THEN {"name"} ELSE {}

RECURSIVE RegexRunLeadingDot(_, _, _)
RegexRunLeadingDot(qs, s, i) ==
    IF i > Len(s) THEN qs
    ELSE RegexRunLeadingDot(UNION {RegexStepLeadingDot(q, s[i]) : q \in qs}, s, i + 1)

isValidPackageNameLeadingDot(projectName) ==
    "name" \in RegexRunLeadingDot({"start"}, projectName, 1)

isValidPackageName(projectName) ==
    "name" \in RegexRun({"start"}, projectName, 1)

\* ------------------------------------------------------------------------
\* toValidPackageName
\* ------------------------------------------------------------------------

RECURSIVE TrimStart(_)
TrimStart(s) ==
    IF s # <<>> /\ Head(s) \in Space THEN TrimStart(Tail(s)) ELSE s

RECURSIVE TrimEnd(_)
TrimEnd(s) ==
    IF s # <<>> /\ s[Len(s)] \in Space
    THEN TrimEnd(SubSeq(s, 1, Len(s) - 1))
    ELSE s

\* String.prototype.trim
Trim(s) == TrimEnd(TrimStart(s))

LowerOf(c) == IF c = "B" THEN "b" ELSE c

\* String.prototype.toLowerCase
ToLowerCase(s) == [i \in 1..Len(s) |-> LowerOf(s[i])]

\* s.replace(/[class]+/g, rep): every maximal run of characters of the class
\* becomes one rep
RECURSIVE ReplaceRuns(_, _, _)
ReplaceRuns(s, class, rep) ==
    IF s = <<>> THEN <<>>
    ELSE IF Head(s) \in class
         THEN IF Len(s) >= 2 /\ s[2] \in class
              THEN ReplaceRuns(Tail(s), class, rep)
              ELSE <<rep>> \o ReplaceRuns(Tail(s), class, rep)
         ELSE <<Head(s)>> \o ReplaceRuns(Tail(s), class, rep)

\* s.replace(/^[._]/, "")
StripLeading(s) ==
    IF s # <<>> /\ Head(s) \in {".", "_"} THEN Tail(s) ELSE s

\* the characters of s
Chars(s) == {s[i] : i \in 1..Len(s)}

\* [a-z0-9-~]
Kept == Lower \cup Digit \cup {"-", "~"}

\* every character a string of the model can hold
AllChars == Alphabet \cup Lower

\* [^a-z0-9-~]
NotKept == AllChars \ Kept

\* a plausible slip: the last replace is left out
toValidPackageNameNoFinalReplace(projectName) ==
    StripLeading(ReplaceRuns(ToLowerCase(Trim(projectName)), Space, "-"))

\* a plausible slip: the last replace keeps the validator's class [a-z0-9-._~]
toValidPackageNameWideClass(projectName) ==
    LET a == StripLeading(ReplaceRuns(ToLowerCase(Trim(projectName)), Space, "-"))
    IN  ReplaceRuns(a, AllChars \ NameRest, "-")

toValidPackageName(projectName) ==
    LET a == Trim(projectName)
        b == ToLowerCase(a)
        c == ReplaceRuns(b, Space, "-")
        d == StripLeading(c)
    IN  ReplaceRuns(d, NotKept, "-")

\* ------------------------------------------------------------------------
\* packageNameToDirName
\* ------------------------------------------------------------------------

\* index of the first c in s at or after position i, or Len(s) + 1
RECURSIVE IndexFrom(_, _, _)
IndexFrom(s, c, i) ==
    IF i > Len(s) THEN Len(s) + 1
    ELSE IF s[i] = c THEN i
    ELSE IndexFrom(s, c, i + 1)

\* String.prototype.split(sep) for a one-character separator
RECURSIVE Split(_, _)
Split(s, sep) ==
    LET k == IndexFrom(s, sep, 1)
    IN  IF k > Len(s) THEN <<s>>
        ELSE <<SubSeq(s, 1, k - 1)>> \o Split(SubSeq(s, k + 1, Len(s)), sep)

\* a plausible slip: the last part of the split
packageNameToDirNameLastPart(packageName) ==
    IF "/" \in Chars(packageName)
    THEN Split(packageName, "/")[Len(Split(packageName, "/"))]
    ELSE packageName

\* split("/")[1] is the second element (JavaScript counts from 0)
packageNameToDirName(packageName) ==
    IF "/" \in Chars(packageName) THEN Split(packageName, "/")[2] ELSE packageName

\* ------------------------------------------------------------------------
\* State
\* ------------------------------------------------------------------------

VARIABLES
    input,        \* the string a string function is applied to
    op,           \* which string function was applied last
    output,       \* its result
    prev,         \* the result before it
    pc,           \* position of main()
    argv,         \* process.argv[2]
    packageName,  \* options.packageName
    installDeps,  \* options.installDeps
    finalDirName, \* let finalDirName
    destDir,      \* let destDir (the directory under the working directory)
    disk,         \* what is stored under each directory name
    disk0,        \* the disk when the tool started
    child,        \* the npm install subprocess
    installResult,\* the promise installDependencies returns
    err,          \* the error the catch block received
    exitCode,     \* the exit code of the process
    attempts,     \* answers the name question has rejected
    log           \* the side-effecting steps so far, in order

fnVars == <<input, op, output, prev>>

mainVars == <<pc, argv, packageName, installDeps, finalDirName, destDir, disk,
              disk0, child, installResult, err, exitCode, attempts, log>>

vars == <<input, op, output, prev, pc, argv, packageName, installDeps,
          finalDirName, destDir, disk, disk0, child, installResult, err,
          exitCode, attempts, log>>

\* null / undefined
Null == <<"null">>

\* the name the template's package.json carries
TemplateName == <<"template">>

\* process.argv[2] of the runs explored: "B a", ".", "" and no argument
HintSet == {<<"B", " ", "a">>, <<".">>, <<>>, Null}

\* what the user types at the name question: "a", "@a/b", "@b/a", "B"
TypedNames == {<<"a">>, <<"@", "a", "/", "b">>, <<"@", "b", "/", "a">>, <<"B">>}

\* the answers the name question can receive: typed, or the default on Enter
Answers(hint) == TypedNames \cup {toValidPackageName(hint)}

\* the directory names a run can resolve
DirNames ==
    {packageNameToDirName(n) :
        n \in {m \in UNION {Answers(h) : h \in HintSet \ {Null}} :
                  isValidPackageName(m)}}

NoDir == [tree |-> "absent", manifest |-> Null, modules |-> FALSE]

PreExisting == [tree |-> "preexisting", manifest |-> Null, modules |-> FALSE]

\* the process is still running: it has no exit code
NotExited == 0 - 1

\* fsExtra.existsSync
existsSync(d) == disk[d].tree # "absent"

\* ------------------------------------------------------------------------
\* The string functions, applied to every bounded string
\* ------------------------------------------------------------------------

mainIdle ==
    /\ pc = "off"
    /\ argv = Null
    /\ packageName = Null
    /\ installDeps = FALSE
    /\ finalDirName = Null
    /\ destDir = Null
    /\ disk = [d \in DirNames |-> NoDir]
    /\ disk0 = [d \in DirNames |-> NoDir]
    /\ child = "none"
    /\ installResult = "none"
    /\ err = "none"
    /\ exitCode = NotExited
    /\ attempts = 0
    /\ log = <<>>

FnInit ==
    /\ input \in Strings
    /\ op = "idle"
    /\ output = Null
    /\ prev = Null
    /\ mainIdle

\* isValidPackageName(input)
FnValidate ==
    /\ op = "idle"
    /\ op' = "isValid"
    /\ output' = isValidPackageName(input)
    /\ UNCHANGED <<input, prev>>
    /\ UNCHANGED mainVars

\* toValidPackageName(input)
FnNormalize ==
    /\ op = "idle"
    /\ op' = "toValid"
    /\ output' = toValidPackageName(input)
    /\ UNCHANGED <<input, prev>>
    /\ UNCHANGED mainVars

\* toValidPackageName(toValidPackageName(input))
FnNormalizeAgain ==
    /\ op = "toValid"
    /\ op' = "toValidTwice"
    /\ prev' = output
    /\ output' = toValidPackageName(output)
    /\ UNCHANGED input
    /\ UNCHANGED mainVars

\* isValidPackageName(toValidPackageName(input)), the validation of the
\* default answer of the name question
FnValidateNormalized ==
    /\ op = "toValid"
    /\ op' = "isValidOfToValid"
    /\ prev' = output
    /\ output' = isValidPackageName(output)
    /\ UNCHANGED input
    /\ UNCHANGED mainVars

\* packageNameToDirName(input)
FnDirName ==
    /\ op = "idle"
    /\ op' = "dirName"
    /\ output' = packageNameToDirName(input)
    /\ UNCHANGED <<input, prev>>
    /\ UNCHANGED mainVars

FnNext ==
    \/ FnValidate
    \/ FnNormalize
    \/ FnNormalizeAgain
    \/ FnValidateNormalized
    \/ FnDirName

FnSpec == FnInit /\ [][FnNext]_vars

\* ------------------------------------------------------------------------
\* main()
\* ------------------------------------------------------------------------

fnIdle ==
    /\ input = <<>>
    /\ op = "off"
    /\ output = Null
    /\ prev = Null

Init ==
    /\ fnIdle
    /\ pc = "start"
    /\ argv \in HintSet
    /\ packageName = Null
    /\ installDeps = FALSE
    /\ finalDirName = Null
    /\ destDir = Null
    /\ disk \in [DirNames -> {NoDir, PreExisting}]
    /\ disk0 = disk
    /\ child = "none"
    /\ installResult = "none"
    /\ err = "none"
    /\ exitCode = NotExited
    /\ attempts = 0
    /\ log = <<>>

\* process.exit(code): the process ends there; nothing after it runs
processExit(code) ==
    /\ pc' = "exited"
    /\ exitCode' = code

\* a rejected promise or a throw inside the try block: control goes to catch
throw(e) ==
    /\ pc' = "catch"
    /\ err' = e

\* lines 141-152: no argument (undefined or "") ends the run with code 1
ArgCheck ==
    /\ pc = "start"
    /\ IF argv = Null \/ argv = <<>>
       THEN processExit(1)
       ELSE pc' = "askName" /\ UNCHANGED exitCode
    /\ UNCHANGED <<argv, packageName, installDeps, finalDirName, destDir, disk,
                   disk0, child, installResult, err, attempts, log>>
    /\ UNCHANGED fnVars

\* the name question accepts an answer the validator accepts
SubmitName(n) ==
    /\ pc = "askName"
    /\ isValidPackageName(n)
    /\ packageName' = n
    /\ pc' = "askInstall"
    /\ UNCHANGED <<argv, installDeps, finalDirName, destDir, disk, disk0, child,
                   installResult, err, exitCode, attempts, log>>
    /\ UNCHANGED fnVars

\* the name question shows the validator's message and asks again
RejectName(n) ==
    /\ pc = "askName"
    /\ ~isValidPackageName(n)
    /\ attempts < MaxAttempts
    /\ attempts' = attempts + 1
    /\ UNCHANGED <<pc, argv, packageName, installDeps, finalDirName, destDir,
                   disk, disk0, child, installResult, err, exitCode, log>>
    /\ UNCHANGED fnVars

\* the confirm question; prompt() resolves with both answers
AnswerInstall(b) ==
    /\ pc = "askInstall"
    /\ installDeps' = b
    /\ pc' = "resolve"
    /\ log' = Append(log, "prompted")
    /\ UNCHANGED <<argv, packageName, finalDirName, destDir, disk, disk0, child,
                   installResult, err, exitCode, attempts>>
    /\ UNCHANGED fnVars

\* the prompt session is cancelled: prompt() rejects, with an error value
\* ("message") or with undefined ("undefined")
AbortPrompt(e) ==
    /\ pc \in {"askName", "askInstall"}
    /\ throw(e)
    /\ UNCHANGED <<argv, packageName, installDeps, finalDirName, destDir, disk,
                   disk0, child, installResult, exitCode, attempts, log>>
    /\ UNCHANGED fnVars

\* lines 162-163
ResolvePath ==
    /\ pc = "resolve"
    /\ finalDirName' = packageNameToDirName(packageName)
    /\ destDir' = packageNameToDirName(packageName)
    /\ pc' = "check"
    /\ UNCHANGED <<argv, packageName, installDeps, disk, disk0, child,
                   installResult, err, exitCode, attempts, log>>
    /\ UNCHANGED fnVars

\* a plausible slip: the conflict is thrown instead of ending the process
ExistenceCheckThrows ==
    /\ pc = "check"
    /\ IF existsSync(destDir)
       THEN throw("conflict") /\ UNCHANGED <<exitCode, log>>
       ELSE pc' = "copy" /\ log' = Append(log, "absent") /\ UNCHANGED <<exitCode, err>>
    /\ UNCHANGED <<argv, packageName, installDeps, finalDirName, destDir, disk,
                   disk0, child, installResult, attempts>>
    /\ UNCHANGED fnVars

\* lines 166-169
ExistenceCheck ==
    /\ pc = "check"
    /\ IF existsSync(destDir)
       THEN processExit(1) /\ UNCHANGED log
       ELSE pc' = "copy" /\ log' = Append(log, "absent") /\ UNCHANGED exitCode
    /\ UNCHANGED <<argv, packageName, installDeps, finalDirName, destDir, disk,
                   disk0, child, installResult, err, attempts>>
    /\ UNCHANGED fnVars

\* copyTemplate (lines 71-80, called at line 172): copy() creates the
\* destination and fills it; an I/O error can strike before anything was
\* created or after part of the tree was written
CopyTemplate(outcome) ==
    /\ pc = "copy"
    /\ CASE outcome = "ok" ->
              /\ disk' = [disk EXCEPT ![destDir] =
                            [tree |-> "template", manifest |-> TemplateName,
                             modules |-> FALSE]]
              /\ log' = log \o <<"copy", "copyOk">>
              /\ pc' = "patch"
              /\ UNCHANGED err
         [] outcome = "failEarly" ->
              /\ log' = log \o <<"copy", "copyFail">>
              /\ throw("io")
              /\ UNCHANGED disk
         [] outcome = "failPartial" ->
              /\ disk' = [disk EXCEPT ![destDir] =
                            [tree |-> "partial", manifest |-> Null,
                             modules |-> FALSE]]
              /\ log' = log \o <<"copy", "copyFail">>
              /\ throw("io")
    /\ UNCHANGED <<argv, packageName, installDeps, finalDirName, destDir, disk0,
                   child, installResult, exitCode, attempts>>
    /\ UNCHANGED fnVars

\* a plausible slip: the install-now answer is not consulted
afterPatchAlways == "install"

\* where main() goes after a successful patch (lines 178-183)
afterPatch == IF installDeps THEN "install" ELSE "done"

\* a plausible slip: the directory name is written instead of the package name
manifestNameDir == finalDirName

\* the name updatePackageJson writes (line 87, argument of line 175)
manifestName == packageName

\* updatePackageJson (lines 84-89, called at line 175): readJSON can fail
\* (missing or malformed file), writeJSON can fail and leave the file broken
UpdatePackageJson(outcome) ==
    /\ pc = "patch"
    /\ CASE outcome = "ok" ->
              /\ disk' = [disk EXCEPT ![destDir].manifest = manifestName]
              /\ log' = log \o <<"patch", "patchOk">>
              /\ pc' = afterPatch
              /\ UNCHANGED err
         [] outcome = "readFail" ->
              /\ log' = log \o <<"patch", "patchFail">>
              /\ throw("io")
              /\ UNCHANGED disk
         [] outcome = "writeFail" ->
              /\ disk' = [disk EXCEPT ![destDir].manifest = Null]
              /\ log' = log \o <<"patch", "patchFail">>
              /\ throw("io")
    /\ UNCHANGED <<argv, packageName, installDeps, finalDirName, destDir, disk0,
                   child, installResult, exitCode, attempts>>
    /\ UNCHANGED fnVars

\* installDependencies up to spawn() (lines 92-101).  The child starts
\* ("started"); or spawn() throws inside the promise executor, which rejects
\* the promise ("throws"); or the spawn fails asynchronously and the child
\* emits 'error', for which no listener is registered: the event is thrown
\* as an uncaught exception and the runtime ends the process with code 1
\* ("errorEvent").
Spawn(outcome) ==
    /\ pc = "install"
    /\ log' = Append(log, "spawn")
    /\ CASE outcome = "started" ->
              /\ child' = "running"
              /\ installResult' = "pending"
              /\ pc' = "awaitClose"
              /\ UNCHANGED <<err, exitCode>>
         [] outcome = "throws" ->
              /\ child' = "spawnThrew"
              /\ installResult' = "rejected"
              /\ throw("spawn")
              /\ UNCHANGED exitCode
         [] outcome = "errorEvent" ->
              /\ child' = "spawnError"
              /\ installResult' = "pending"
              /\ processExit(1)
              /\ UNCHANGED err
    /\ UNCHANGED <<argv, packageName, installDeps, finalDirName, destDir, disk,
                   disk0, attempts>>
    /\ UNCHANGED fnVars

\* a plausible slip: the exit code is not looked at
settleAnyCode(code) == "resolved"

\* the 'close' listener (lines 103-106): code is "0", a nonzero status
\* ("1"), or null when a signal ended the child ("null")
settle(code) == IF code = "0" THEN "resolved" ELSE "rejected"

\* the child closes; npm may have written node_modules by then
ChildClose(code, wrote) ==
    /\ pc = "awaitClose"
    /\ child = "running"
    /\ child' = code
    /\ installResult' = settle(code)
    /\ disk' = [disk EXCEPT ![destDir].modules = wrote]
    /\ IF settle(code) = "resolved"
       THEN pc' = "done" /\ UNCHANGED err
       ELSE throw("install")
    /\ UNCHANGED <<argv, packageName, installDeps, finalDirName, destDir, disk0,
                   exitCode, attempts, log>>
    /\ UNCHANGED fnVars

\* printCompletion, then main() returns: nothing is left to run and the
\* process ends with code 0 (line 183)
Done ==
    /\ pc = "done"
    /\ processExit(0)
    /\ log' = Append(log, "completion")
    /\ UNCHANGED <<argv, packageName, installDeps, finalDirName, destDir, disk,
                   disk0, child, installResult, err, attempts>>
    /\ UNCHANGED fnVars

\* the catch block up to the removal (lines 184-189): reading err.message of
\* undefined throws out of main(); otherwise the destination is removed when
\* it is set and exists, and the process exits with 1 when not
Catch ==
    /\ pc = "catch"
    /\ IF err = "undefined"
       THEN pc' = "topLevel" /\ UNCHANGED exitCode
       ELSE IF destDir # Null /\ existsSync(destDir)
            THEN pc' = "remove" /\ UNCHANGED exitCode
            ELSE processExit(1)
    /\ UNCHANGED <<argv, packageName, installDeps, finalDirName, destDir, disk,
                   disk0, child, installResult, err, attempts, log>>
    /\ UNCHANGED fnVars

\* remove(destDir) and the exit after it (lines 190-194); a failing removal
\* rejects main() and may have deleted part of the tree
Remove(outcome) ==
    /\ pc = "remove"
    /\ CASE outcome = "ok" ->
              /\ disk' = [disk EXCEPT ![destDir] = NoDir]
              /\ log' = log \o <<"remove", "removeOk">>
              /\ processExit(1)
         [] outcome = "fail" ->
              /\ disk' = [disk EXCEPT ![destDir].tree = "partial"]
              /\ log' = log \o <<"remove", "removeFail">>
              /\ pc' = "topLevel"
              /\ UNCHANGED exitCode
    /\ UNCHANGED <<argv, packageName, installDeps, finalDirName, destDir, disk0,
                   child, installResult, err, attempts>>
    /\ UNCHANGED fnVars

\* main().catch (lines 198-201)
TopLevelCatch ==
    /\ pc = "topLevel"
    /\ processExit(1)
    /\ UNCHANGED <<argv, packageName, installDeps, finalDirName, destDir, disk,
                   disk0, child, installResult, err, attempts, log>>
    /\ UNCHANGED fnVars

Next ==
    \/ ArgCheck
    \/ \E n \in Answers(argv) : SubmitName(n)
    \/ \E n \in Answers(argv) : RejectName(n)
    \/ \E b \in BOOLEAN : AnswerInstall(b)
    \/ \E e \in {"message", "undefined"} : AbortPrompt(e)
    \/ ResolvePath
    \/ ExistenceCheck
    \/ \E o \in {"ok", "failEarly", "failPartial"} : CopyTemplate(o)
    \/ \E o \in {"ok", "readFail", "writeFail"} : UpdatePackageJson(o)
    \/ \E o \in {"started", "throws", "errorEvent"} : Spawn(o)
    \/ \E c \in {"0", "1", "null"}, w \in BOOLEAN : ChildClose(c, w)
    \/ Done
    \/ Catch
    \/ \E o \in {"ok", "fail"} : Remove(o)
    \/ TopLevelCatch

Spec == Init /\ [][Next]_vars

\* ------------------------------------------------------------------------
\* Properties of the string functions (checked under FnSpec)
\* ------------------------------------------------------------------------

\* '@' scope: a first character of [a-z0-9-*~], then any of [a-z0-9-*._~]
ScopePrefix(p) ==
    /\ Len(p) >= 2
    /\ p[1] = "@"
    /\ p[2] \in ScopeFirst
    /\ \A i \in 3..Len(p) : p[i] \in ScopeRest

\* a non-empty segment of characters of class that starts with neither . nor _
Segment(s, class) ==
    /\ Len(s) >= 1
    /\ \A i \in 1..Len(s) : s[i] \in class
    /\ s[1] \notin {".", "_"}

\* an optional @scope/ prefix, then a segment
MatchesGrammar(s, class) ==
    \/ Segment(s, class)
    \/ \E k \in 1..Len(s) :
          /\ s[k] = "/"
          /\ ScopePrefix(SubSeq(s, 1, k - 1))
          /\ Segment(SubSeq(s, k + 1, Len(s)), class)

\* C4 as stated: isValidPackageName(name) is true exactly when name is an
\* optional @scope/ prefix followed by a non-empty segment made only of
\* lowercase alphanumerics, '-', '.' and '~' that does not start with '.'
\* or '_'.
C4_GrammarAsStated ==
    op = "isValid" =>
        (output <=> MatchesGrammar(input, Lower \cup Digit \cup {"-", ".", "~"}))

\* C4 amended: isValidPackageName(name) is true exactly when name is an
\* optional @scope/ prefix followed by a non-empty segment made only of
\* lowercase alphanumerics, '-', '.', '_' and '~' that does not start with
\* '.' or '_': an underscore is accepted after the first character.
C4_GrammarWithUnderscore ==
    op = "isValid" =>
        (output <=> MatchesGrammar(input, Lower \cup Digit \cup {"-", ".", "_", "~"}))

\* a name with an underscore after its first character was accepted
C4_Witness ==
    /\ op = "isValid"
    /\ output = TRUE
    /\ "_" \in Chars(input)
    /\ Len(input) >= 3

\* s contains an alphanumeric character
HasAlnum(s) == Chars(s) \cap (Lower \cup Digit \cup Upper) # {}

\* C5: for every non-empty s with at least one alphanumeric character,
\* isValidPackageName(toValidPackageName(s)) is true.
C5_NormalizedIsValid ==
    (op = "isValidOfToValid" /\ input # <<>> /\ HasAlnum(input)) => output = TRUE

\* the normalization of a string with a leading '.', an inner space and an
\* uppercase letter was validated and accepted
C5_Witness ==
    /\ op = "isValidOfToValid"
    /\ Len(input) >= 3
    /\ input[1] = "."
    /\ " " \in Chars(SubSeq(input, 2, Len(input) - 1))
    /\ "B" \in Chars(input)
    /\ prev # input
    /\ output = TRUE

\* C6: toValidPackageName(toValidPackageName(s)) = toValidPackageName(s)
\* for every string s.
C6_Idempotent ==
    op = "toValidTwice" => output = prev

\* the function was applied twice to a string with two leading '.'/'_'
\* characters, which the first application changed
C6_Witness ==
    /\ op = "toValidTwice"
    /\ Len(input) >= 3
    /\ input[1] \in {".", "_"}
    /\ input[2] \in {".", "_"}
    /\ prev # input
    /\ prev # <<>>
    /\ output = prev

\* the substring of s after its first '/'
AfterFirstSlash(s) == SubSeq(s, IndexFrom(s, "/", 1) + 1, Len(s))

\* the part of s between its first '/' and its second '/' (or its end)
BetweenSlashes(s) ==
    LET k == IndexFrom(s, "/", 1)
    IN  SubSeq(s, k + 1, IndexFrom(s, "/", k + 1) - 1)

\* how many '/' s contains
Slashes(s) == Cardinality({i \in 1..Len(s) : s[i] = "/"})

\* C7 as stated: packageNameToDirName(name) is the substring of name after
\* its first '/' when name contains '/', also when it contains more than
\* one, and name itself when it contains none.
C7_AfterFirstSlash ==
    op = "dirName" =>
        output = (IF Slashes(input) >= 1 THEN AfterFirstSlash(input) ELSE input)

\* C7 amended: packageNameToDirName(name) is the part of name between its
\* first '/' and its second '/' (or the end of name when there is no
\* second '/'), so it is the substring after the first '/' when name
\* contains exactly one '/'; it is name itself when name contains none.
C7_BetweenSlashes ==
    op = "dirName" =>
        /\ output = (IF Slashes(input) >= 1 THEN BetweenSlashes(input) ELSE input)
        /\ Slashes(input) = 1 => output = AfterFirstSlash(input)

\* a name with two '/' gave a non-empty directory name other than the
\* substring after the first '/'
C7_Witness ==
    /\ op = "dirName"
    /\ Slashes(input) = 2
    /\ output # <<>>
    /\ output # AfterFirstSlash(input)

\* ------------------------------------------------------------------------
\* Properties of main() (checked under Spec)
\* ------------------------------------------------------------------------

\* e occurs in the log
Logged(e) == \E i \in 1..Len(log) : log[i] = e

\* how often e occurs in the log
Count(e) == Cardinality({i \in 1..Len(log) : log[i] = e})

\* the position of the first e in the log (Len(log) + 1 when there is none)
Pos(e) == IndexFrom(log, e, 1)

\* C1: when the destination exists at the existence check, the run exits
\* with code 1, no copy, patch, install or removal is started, and nothing
\* on disk is changed.
C1_ExistingDestinationUntouched ==
    (destDir # Null /\ disk0[destDir] = PreExisting) =>
        /\ pc \in {"check", "exited"}
        /\ pc = "exited" => exitCode = 1
        /\ disk = disk0
        /\ log = <<"prompted">>
        /\ child = "none"

\* a run ended at the existence check on a directory that was there before
C1_Witness ==
    /\ pc = "exited"
    /\ destDir # Null
    /\ disk0[destDir] = PreExisting
    /\ disk[destDir] = PreExisting
    /\ exitCode = 1

\* the copy, the patch or the install step failed
StepFailed ==
    \/ Logged("copyFail")
    \/ Logged("patchFail")
    \/ child \in {"1", "null", "spawnThrew", "spawnError"}

\* C2: when the copy, the patch or the install step fails, the process ends
\* with code 1 and the destination is gone from the disk by then.
C2_FailureLeavesNoResidue ==
    (pc = "exited" /\ StepFailed) =>
        /\ exitCode = 1
        /\ disk[destDir] = NoDir

\* the argument was present, the destination did not exist, and copy,
\* patch and (when requested) install succeeded
AllSucceeded ==
    /\ argv # Null
    /\ argv # <<>>
    /\ destDir # Null
    /\ disk0[destDir] = NoDir
    /\ Logged("copyOk")
    /\ Logged("patchOk")
    /\ installDeps => child = "0"

\* C3: a run that ends, ends with code 0 or 1; the code is 0 exactly when
\* the argument was present, the destination did not exist and copy, patch
\* and (when requested) install all succeeded; every run that met an error
\* ends with code 1.
C3_ExitCode ==
    pc = "exited" =>
        /\ exitCode \in {0, 1}
        /\ exitCode = 0 <=> AllSucceeded
        /\ (err # "none" \/ Logged("removeFail")) => exitCode = 1

\* a run with the install requested ended with code 0
C3_Witness ==
    /\ pc = "exited"
    /\ exitCode = 0
    /\ installDeps
    /\ child = "0"
    /\ Logged("completion")

\* C8: a successful run with a scoped name @scope/pkg created the
\* directory pkg and wrote the full name @scope/pkg in its manifest; with
\* an unscoped name the directory and the manifest name are the package
\* name; no other directory was touched.
C8_ScopedDestinationAndManifest ==
    (pc = "exited" /\ exitCode = 0) =>
        /\ disk0[destDir] = NoDir
        /\ disk[destDir].tree = "template"
        /\ disk[destDir].manifest = packageName
        /\ packageName[1] = "@" =>
              /\ destDir = AfterFirstSlash(packageName)
              /\ destDir # packageName
        /\ packageName[1] # "@" => destDir = packageName
        /\ \A d \in DirNames \ {destDir} : disk[d] = disk0[d]

\* a successful run with a scoped name
C8_Witness ==
    /\ pc = "exited"
    /\ exitCode = 0
    /\ packageName[1] = "@"
    /\ disk[destDir].manifest = packageName

\* C9: copy, patch and spawn are each started at most once; the copy only
\* after the prompt returned and the destination was found absent, the
\* patch only after the copy succeeded, the spawn only after the patch
\* succeeded and only when the install-now answer is true.
C9_Sequential ==
    /\ Count("copy") <= 1
    /\ Count("patch") <= 1
    /\ Count("spawn") <= 1
    /\ Logged("copy") =>
          /\ Pos("prompted") < Pos("absent")
          /\ Pos("absent") < Pos("copy")
    /\ Logged("patch") =>
          /\ Pos("copy") < Pos("copyOk")
          /\ Pos("copyOk") < Pos("patch")
    /\ Logged("spawn") =>
          /\ Pos("patch") < Pos("patchOk")
          /\ Pos("patchOk") < Pos("spawn")
          /\ installDeps
    /\ child # "none" => Logged("spawn")
    /\ ~installDeps => (child = "none" /\ ~Logged("spawn"))

\* a run declined the install and ended successfully after copy and patch
C9_Witness ==
    /\ pc = "exited"
    /\ exitCode = 0
    /\ ~installDeps
    /\ log = <<"prompted", "absent", "copy", "copyOk", "patch", "patchOk",
               "completion">>

\* C10: installDependencies resolves exactly when the child ended with
\* status 0; for a nonzero status, a signal or a failure to spawn it
\* rejects and the error reaches main(); it is pending while the child
\* runs.
C10_InstallSettlesByExitStatus ==
    /\ installResult = "resolved" <=> child = "0"
    /\ child \in {"1", "null", "spawnThrew", "spawnError"} =>
          /\ installResult = "rejected"
          /\ err \in {"install", "spawn"}
    /\ child = "running" => installResult = "pending"

====
